---- MODULE Spec2Model ----
(***************************************************************************)
(* The e-commerce REST API: the order workflow of routes/orders.js (order   *)
(* placement, discount preview, tracking, status update, order update and   *)
(* deletion against the product, order, user and discount-code             *)
(* collections), the category tree of routes/categories.js and the          *)
(* create-admin endpoint of routes/auth.js.                                 *)
(*                                                                          *)
(* Each handler is a sequence of store operations (the awaits of the        *)
(* source).  PostStep performs one store operation of POST /orders and the  *)
(* synchronous code that follows it; RunPost runs a handler to its          *)
(* response.  Spec, SpecPlace, SpecLines, SpecDiscount, SpecEdit, SpecTree  *)
(* and SpecCat take one request at a time.  SpecConc and SpecNumber         *)
(* interleave the store operations of POST /orders requests, SpecRestore    *)
(* those of the requests that restore stock, SpecAdmin those of             *)
(* POST /auth/create-admin, and SpecFail, with weak fairness of every       *)
(* pending store operation and response, those of POST /orders and          *)
(* POST /discount-codes.                                                    *)
(***************************************************************************)
EXTENDS Integers, Sequences, FiniteSets, TLC

VARIABLES products, orders, users, discounts, resp, inflight, admins, categories

vars == <<products, orders, users, discounts, resp, inflight, admins, categories>>

(***************************************************************************)
(* Bounds of the model.                                                     *)
(***************************************************************************)
MaxItems == 2
MaxStock == 15
MaxUsed == 1
MaxSlots == 2
MaxCategories == 3
MaxDepth == 2
MaxDraw == 1

(***************************************************************************)
(* JavaScript values.                                                       *)
(***************************************************************************)
NoProduct == "none"
NoCode == ""
NoStatus == ""
Undefined == -1
NaN == -2
Now == 100

NoNotes == "<undefined>"
NoAddress == [present |-> FALSE, street |-> "", city |-> ""]

Max(a, b) == IF a >= b THEN a ELSE b

Trim(s) ==
  CASE s = " Bob " -> "Bob"
    [] s = " 0200 " -> "0200"
    [] s = " Bob@Shop.Test " -> "Bob@Shop.Test"
    [] s = " call first " -> "call first"
    [] OTHER -> s

ToLowerCase(s) ==
  CASE s = "Bob@Shop.Test" -> "bob@shop.test"
    [] OTHER -> s

OrElse(s, d) == IF s = "" THEN d ELSE s

Includes(s, x) == \E k \in 1..Len(s) : s[k] = x

(***************************************************************************)
(* Collections.                                                             *)
(***************************************************************************)
validStatuses == {"pending", "confirmed", "processing", "shipped", "delivered", "cancelled"}

InitProducts ==
  [p \in {"p1", "p2", "pOff"} |->
     CASE p = "p1" -> [name |-> "p1", price |-> 50, stock |-> 10, isActive |-> TRUE,
                       subcategory |-> 1]
       [] p = "p2" -> [name |-> "p2", price |-> 20, stock |-> 0, isActive |-> TRUE,
                       subcategory |-> 1]
       [] OTHER -> [name |-> "pOff", price |-> 30, stock |-> 5, isActive |-> FALSE,
                    subcategory |-> 2]]

NoParent == 0

CategoryDoc(name, parent, ancestors) ==
  [name |-> name, parent |-> parent, ancestors |-> ancestors]

InitCategories ==
  [c \in {1, 2} |->
     IF c = 1 THEN CategoryDoc("Electronics", NoParent, <<>>)
     ELSE CategoryDoc("Clothing", NoParent, <<>>)]

InitDiscounts ==
  [c \in {"SAVE20", "OFF", "OLD", "BIG"} |->
     CASE c = "SAVE20" -> [code |-> c, discount |-> 20, expiresAt |-> 200, isActive |-> TRUE]
       [] c = "OFF" -> [code |-> c, discount |-> 10, expiresAt |-> 200, isActive |-> FALSE]
       [] c = "BIG" -> [code |-> c, discount |-> 150, expiresAt |-> 200, isActive |-> TRUE]
       [] OTHER -> [code |-> c, discount |-> 50, expiresAt |-> 50, isActive |-> TRUE]]

InitUsers == [u \in {"u1", "u2"} |-> [usedDiscountCodes |-> <<>>]]

OrderContact(c) ==
  [name |-> Trim(c.name), email |-> ToLowerCase(Trim(c.email)), phone |-> Trim(c.phone),
   address |-> [street |-> OrElse(c.address.street, ""), city |-> OrElse(c.address.city, "")]]

OrderDoc(num, contact, its, sub, code, disc, fee, total, notes, owner) ==
  [orderNumber |-> num, customerInfo |-> OrderContact(contact), items |-> its,
   subtotal |-> sub, discountCode |-> code, discountAmount |-> disc, deliveryFee |-> fee,
   totalAmount |-> total, notes |-> IF notes = NoNotes THEN "" ELSE OrElse(Trim(notes), ""),
   status |-> "pending", user |-> owner]

ContactOk ==
  [name |-> "Ann", email |-> "ann@shop.test", phone |-> "0100", address |-> NoAddress]

InitOrders ==
  [o \in {1, 2} |->
     IF o = 1
     THEN OrderDoc(<<"ORD", 10, 1>>, ContactOk, <<[product |-> "p1", quantity |-> 3, price |-> 50]>>,
                   150, NoCode, 0, 5, 155, NoNotes, "u1")
     ELSE OrderDoc(<<"ORD", 20, 2>>, ContactOk,
                   <<[product |-> "p1", quantity |-> 2, price |-> 50],
                     [product |-> "p2", quantity |-> 1, price |-> 20]>>,
                   120, NoCode, 0, 0, 120, NoNotes, "none")]

Store(p, o, u, d) == [products |-> p, orders |-> o, users |-> u, discounts |-> d]

(***************************************************************************)
(* Store operations.                                                        *)
(***************************************************************************)
FindById(coll, id) ==
  IF id \in DOMAIN coll THEN [found |-> TRUE, doc |-> coll[id]] ELSE [found |-> FALSE]

Get(doc, field) == IF field \in DOMAIN doc THEN doc[field] ELSE Undefined

IncStock(prods, id, n) ==
  IF id \in DOMAIN prods
  THEN [prods EXCEPT ![id] = [@ EXCEPT !.stock = @ + n]]
  ELSE prods

RECURSIVE RestoreItemsDebit(_, _, _)
RestoreItemsDebit(prods, its, k) ==
  IF k > Len(its) THEN prods
  ELSE RestoreItemsDebit(IncStock(prods, its[k].product, 0 - its[k].quantity), its, k + 1)

RECURSIVE RestoreItems(_, _, _)
RestoreItems(prods, its, k) ==
  IF k > Len(its) THEN prods
  ELSE RestoreItems(IncStock(prods, its[k].product, its[k].quantity), its, k + 1)

(***************************************************************************)
(* Identifier resolution: a name that no enclosing scope declares raises a  *)
(* ReferenceError.                                                          *)
(***************************************************************************)
LookupLenient(name, env) ==
  IF name \in DOMAIN env THEN [ok |-> TRUE, value |-> env[name]] ELSE [ok |-> TRUE, value |-> 0]

Lookup(name, env) ==
  IF name \in DOMAIN env THEN [ok |-> TRUE, value |-> env[name]] ELSE [ok |-> FALSE]

(***************************************************************************)
(* POST /orders.  loc is the handler's local state: its position pc, the    *)
(* request, the loop index i and the locals of the source.                  *)
(***************************************************************************)
NoDoc == [found |-> FALSE]

NewLoc(req) ==
  [pc |-> "begin", req |-> req, i |-> 1, totalAmount |-> 0, discountAmount |-> 0,
   validatedItems |-> <<>>, product |-> NoDoc, user |-> NoDoc, subtotal |-> 0, k |-> 1,
   orderId |-> 0, status |-> 0, msg |-> "", available |-> Undefined, requested |-> Undefined,
   random |-> 0]

Done(loc, status, msg) == [loc EXCEPT !.pc = "done", !.status = status, !.msg = msg]

FunctionScope(loc) ==
  [customerInfo |-> loc.req.customerInfo, items |-> loc.req.items,
   notes |-> loc.req.notes, discountCode |-> loc.req.discountCode,
   deliveryFee |-> loc.req.deliveryFee, totalAmount |-> loc.totalAmount,
   discountAmount |-> loc.discountAmount, validatedItems |-> loc.validatedItems]

LoopScope(loc, itemTotal) ==
  [customerInfo |-> loc.req.customerInfo, items |-> loc.req.items,
   notes |-> loc.req.notes, discountCode |-> loc.req.discountCode,
   deliveryFee |-> loc.req.deliveryFee, totalAmount |-> loc.totalAmount,
   discountAmount |-> loc.discountAmount, validatedItems |-> loc.validatedItems, item |-> loc.req.items[loc.i],
   product |-> loc.product, user |-> loc.user, itemTotal |-> itemTotal]

JsPercent(amount, percent) == IF amount = NaN THEN NaN ELSE (amount * percent) \div 100

JsTotal(sub, disc, fee) ==
  IF fee = Undefined \/ disc = NaN THEN NaN ELSE Max(0, sub - disc + fee)

AfterLoop(loc) ==
  LET itemTotal == Lookup("itemTotal", FunctionScope(loc))
  IN IF ~itemTotal.ok
     THEN Done(loc, 500, "Error creating order")
     ELSE [loc EXCEPT !.pc = "saveOrder", !.subtotal = itemTotal.value]

EnterItem(loc) ==
  IF loc.i > Len(loc.req.items)
  THEN AfterLoop(loc)
  ELSE LET item == loc.req.items[loc.i]
       IN IF item.product = NoProduct \/ item.quantity <= 0
          THEN Done(loc, 400, "Each item must have a valid product and quantity")
          ELSE [loc EXCEPT !.pc = "findProduct"]

ComputeItem(loc) ==
  LET item == loc.req.items[loc.i]
      itemTotal == loc.product.price * item.quantity
      subtotal == Lookup("subtotal", LoopScope(loc, itemTotal))
  IN IF ~subtotal.ok
     THEN Done(loc, 500, "Error creating order")
     ELSE EnterItem([loc EXCEPT
            !.totalAmount = JsTotal(subtotal.value, loc.discountAmount, loc.req.deliveryFee),
            !.validatedItems = Append(@, [product |-> item.product,
                                          quantity |-> item.quantity,
                                          price |-> loc.product.price]),
            !.i = @ + 1])

AfterUser(loc) ==
  IF loc.user.found /\ loc.req.discountCode # NoCode
  THEN [loc EXCEPT !.pc = "saveUser"]
  ELSE ComputeItem(loc)

Begin(req) ==
  LET loc == NewLoc(req)
      c == req.customerInfo
  IN IF c.name = "" \/ c.email = "" \/ c.phone = ""
     THEN Done(loc, 400, "Customer name, email, and phone are required")
     ELSE IF Len(req.items) = 0
     THEN Done(loc, 400, "Order must contain at least one item")
     ELSE EnterItem(loc)

StepFindProduct(st, loc) ==
  LET item == loc.req.items[loc.i]
      product == FindById(st.products, item.product)
  IN IF ~product.found
     THEN [store |-> st, loc |-> Done(loc, 400, "Product not found or inactive")]
     ELSE IF ~product.doc.isActive
     THEN [store |-> st, loc |-> Done(loc, 400, "Product not found or inactive")]
     ELSE IF product.doc.stock < item.quantity
     THEN [store |-> st,
           loc |-> [Done(loc, 400, "Insufficient stock") EXCEPT
                      !.available = product.doc.stock, !.requested = item.quantity]]
     ELSE LET loc2 == [loc EXCEPT !.product = product.doc]
          IN [store |-> st,
              loc |-> IF loc.req.caller.role = "user"
                      THEN [loc2 EXCEPT !.pc = "findUser"]
                      ELSE AfterUser([loc2 EXCEPT !.user = NoDoc])]

StepFindUserAnyUser(st, loc) ==
  LET user == FindById(st.users, loc.req.caller.id)
  IN IF loc.req.discountCode # NoCode /\ user.found
        /\ \E u \in DOMAIN st.users :
              Includes(st.users[u].usedDiscountCodes, loc.req.discountCode)
     THEN [store |-> st, loc |-> Done(loc, 400, "Discount code already used by this user")]
     ELSE [store |-> st, loc |-> AfterUser([loc EXCEPT !.user = user])]

StepFindUser(st, loc) ==
  LET user == FindById(st.users, loc.req.caller.id)
  IN IF loc.req.discountCode # NoCode /\ user.found
        /\ Includes(user.doc.usedDiscountCodes, loc.req.discountCode)
     THEN [store |-> st, loc |-> Done(loc, 400, "Discount code already used by this user")]
     ELSE [store |-> st, loc |-> AfterUser([loc EXCEPT !.user = user])]

StepSaveUser(st, loc) ==
  LET id == loc.req.caller.id
  IN [store |-> [st EXCEPT !.users =
                   IF id \in DOMAIN st.users
                   THEN [@ EXCEPT ![id].usedDiscountCodes = Append(@, loc.req.discountCode)]
                   ELSE @],
      loc |-> [loc EXCEPT !.pc = "findDiscount"]]

StepFindDiscount(st, loc) ==
  LET discount == FindById(st.discounts, loc.req.discountCode)
  IN IF ~discount.found
     THEN [store |-> st, loc |-> Done(loc, 404, "Invalid discount code")]
     ELSE IF ~discount.doc.isActive
     THEN [store |-> st, loc |-> Done(loc, 400, "Discount code is not active")]
     ELSE IF Get(discount.doc, "expiryDate") # Undefined /\ Now > Get(discount.doc, "expiryDate")
     THEN [store |-> st, loc |-> Done(loc, 400, "Discount code has expired")]
     ELSE [store |-> st,
           loc |-> ComputeItem([loc EXCEPT !.discountAmount =
                                  JsPercent(loc.totalAmount, discount.doc.discount)])]

NewOrderId(ords) == 1 + Max(100, IF DOMAIN ords = {} THEN 0
                                 ELSE CHOOSE m \in DOMAIN ords : \A n \in DOMAIN ords : n <= m)

StepSaveOrder(st, loc) ==
  IF loc.totalAmount = NaN \/ loc.discountAmount = NaN
  THEN [store |-> st, loc |-> Done(loc, 500, "Error creating order")]
  ELSE LET id == NewOrderId(st.orders)
           fee == IF loc.req.deliveryFee = Undefined THEN 0 ELSE loc.req.deliveryFee
           owner == IF loc.req.caller.role = "user" THEN loc.req.caller.id ELSE "none"
           doc == OrderDoc(<<"ORD", Now, loc.random>>, loc.req.customerInfo, loc.validatedItems,
                           loc.subtotal, loc.req.discountCode, loc.discountAmount, fee,
                           loc.totalAmount, loc.req.notes, owner)
       IN [store |-> [st EXCEPT !.orders =
                        [o \in DOMAIN st.orders \cup {id} |->
                           IF o = id THEN doc ELSE st.orders[o]]],
           loc |-> [loc EXCEPT !.pc = "decStock", !.orderId = id, !.k = 1]]

StepDecStock(st, loc) ==
  LET item == loc.validatedItems[loc.k]
  IN [store |-> [st EXCEPT !.products = IncStock(@, item.product, 0 - item.quantity)],
      loc |-> IF loc.k = Len(loc.validatedItems)
              THEN Done(loc, 201, "Order created successfully")
              ELSE [loc EXCEPT !.k = @ + 1]]

PostStep(st, loc) ==
  CASE loc.pc = "findProduct" -> StepFindProduct(st, loc)
    [] loc.pc = "findUser" -> StepFindUser(st, loc)
    [] loc.pc = "saveUser" -> StepSaveUser(st, loc)
    [] loc.pc = "findDiscount" -> StepFindDiscount(st, loc)
    [] loc.pc = "saveOrder" -> StepSaveOrder(st, loc)
    [] loc.pc = "decStock" -> StepDecStock(st, loc)
    [] OTHER -> [store |-> st, loc |-> loc]

RECURSIVE RunPost(_, _)
RunPost(st, loc) ==
  IF loc.pc = "done" THEN [store |-> st, loc |-> loc]
  ELSE LET n == PostStep(st, loc) IN RunPost(n.store, n.loc)

(***************************************************************************)
(* PATCH /orders/:id/status, PUT /orders/:id and DELETE /orders/:id.        *)
(***************************************************************************)
Reply(st, status, msg) == [store |-> st, status |-> status, msg |-> msg]

SetStatus(ords, id, status) == [ords EXCEPT ![id].status = status]

RemoveOrder(ords, id) == [o \in DOMAIN ords \ {id} |-> ords[o]]

PatchStatusResultAlways(st, req) ==
  IF req.status = NoStatus \/ req.status \notin validStatuses
  THEN Reply(st, 400, "Invalid status")
  ELSE LET order == FindById(st.orders, req.id)
       IN IF ~order.found
          THEN Reply(st, 404, "Order not found")
          ELSE LET restored ==
                     IF req.status = "cancelled"
                     THEN RestoreItems(st.products, order.doc.items, 1)
                     ELSE st.products
               IN Reply([st EXCEPT !.products = restored,
                                   !.orders = SetStatus(@, req.id, req.status)],
                        200, "Order status updated successfully")

PatchStatusResult(st, req) ==
  IF req.status = NoStatus \/ req.status \notin validStatuses
  THEN Reply(st, 400, "Invalid status")
  ELSE LET order == FindById(st.orders, req.id)
       IN IF ~order.found
          THEN Reply(st, 404, "Order not found")
          ELSE LET restored ==
                     IF req.status = "cancelled" /\ order.doc.status # "cancelled"
                     THEN RestoreItems(st.products, order.doc.items, 1)
                     ELSE st.products
               IN Reply([st EXCEPT !.products = restored,
                                   !.orders = SetStatus(@, req.id, req.status)],
                        200, "Order status updated successfully")

UpdateContactReplacing(info, c) ==
  [name |-> Trim(c.name), email |-> ToLowerCase(Trim(c.email)), phone |-> Trim(c.phone),
   address |-> [street |-> OrElse(c.address.street, ""), city |-> OrElse(c.address.city, "")]]

UpdateContact(info, c) ==
  [name |-> IF c.name # "" THEN Trim(c.name) ELSE info.name,
   email |-> IF c.email # "" THEN ToLowerCase(Trim(c.email)) ELSE info.email,
   phone |-> IF c.phone # "" THEN Trim(c.phone) ELSE info.phone,
   address |-> IF c.address.present
               THEN [street |-> OrElse(c.address.street, ""), city |-> OrElse(c.address.city, "")]
               ELSE info.address]

PutOrderResultUnvalidated(st, req) ==
  LET order == FindById(st.orders, req.id)
  IN IF ~order.found
     THEN Reply(st, 404, "Order not found")
     ELSE Reply([st EXCEPT !.orders =
                   [@ EXCEPT ![req.id] =
                      [order.doc EXCEPT
                         !.customerInfo = UpdateContact(@, req.customerInfo),
                         !.status = IF req.status # NoStatus THEN req.status ELSE @]]],
                200, "Order updated successfully")

PutOrderResult(st, req) ==
  LET order == FindById(st.orders, req.id)
  IN IF ~order.found
     THEN Reply(st, 404, "Order not found")
     ELSE LET changing == req.status # NoStatus /\ req.status # order.doc.status
              restored ==
                IF changing /\ req.status = "cancelled" /\ order.doc.status # "cancelled"
                THEN RestoreItems(st.products, order.doc.items, 1)
                ELSE st.products
              doc == [order.doc EXCEPT
                        !.customerInfo = UpdateContact(@, req.customerInfo),
                        !.status = IF changing THEN req.status ELSE @,
                        !.notes = IF req.notes # NoNotes THEN Trim(req.notes) ELSE @]
          IN IF changing /\ req.status \notin validStatuses
             THEN Reply(st, 400, "Invalid status")
             ELSE Reply([st EXCEPT !.products = restored, !.orders = [@ EXCEPT ![req.id] = doc]],
                        200, "Order updated successfully")

DeleteOrderResultAlways(st, req) ==
  LET order == FindById(st.orders, req.id)
  IN IF ~order.found
     THEN Reply(st, 404, "Order not found")
     ELSE Reply([st EXCEPT !.products = RestoreItems(@, order.doc.items, 1),
                           !.orders = RemoveOrder(@, req.id)],
                200, "Order deleted successfully")

DeleteOrderResult(st, req) ==
  LET order == FindById(st.orders, req.id)
  IN IF ~order.found
     THEN Reply(st, 404, "Order not found")
     ELSE LET restored ==
                IF order.doc.status # "cancelled"
                THEN RestoreItems(st.products, order.doc.items, 1)
                ELSE st.products
          IN Reply([st EXCEPT !.products = restored,
                              !.orders = RemoveOrder(@, req.id)],
                   200, "Order deleted successfully")

(***************************************************************************)
(* POST /orders/check-discount.  Amounts of the answer are in hundredths:   *)
(* (totalAmount * discount) / 100 is totalAmount * discount hundredths, and *)
(* toFixed(2) prints a number of hundredths as whole.frac.                  *)
(***************************************************************************)
NoData == [present |-> FALSE]

ToFixed2(hundredths) == [whole |-> hundredths \div 100, frac |-> hundredths % 100]

CheckAmountsNoFloor(totalAmount, percent) ==
  LET discountAmount == totalAmount * percent
  IN [discountAmount |-> discountAmount,
      finalAmount |-> IF totalAmount * 100 - discountAmount >= 0
                      THEN totalAmount * 100 - discountAmount
                      ELSE discountAmount - totalAmount * 100]

CheckAmounts(totalAmount, percent) ==
  LET discountAmount == totalAmount * percent
  IN [discountAmount |-> discountAmount,
      finalAmount |-> Max(0, totalAmount * 100 - discountAmount)]

CheckReply(st, status, msg, data) ==
  [store |-> st, status |-> status, msg |-> msg, data |-> data]

CheckDiscountResultConsuming(st, req) ==
  LET discount == FindById(st.discounts, req.discountCode)
      id == req.caller.id
  IN IF req.discountCode = NoCode \/ req.totalAmount = Undefined \/ req.totalAmount <= 0
     THEN CheckReply(st, 400, "Valid total amount is required", NoData)
     ELSE IF ~discount.found
     THEN CheckReply(st, 404, "Invalid discount code", NoData)
     ELSE CheckReply([st EXCEPT !.users =
                        IF id \in DOMAIN st.users
                           /\ ~Includes(st.users[id].usedDiscountCodes, req.discountCode)
                        THEN [@ EXCEPT ![id].usedDiscountCodes = Append(@, req.discountCode)]
                        ELSE @],
                     200, "Discount code is valid", NoData)

CheckDiscountResult(st, req) ==
  IF req.discountCode = NoCode
  THEN CheckReply(st, 400, "Discount code is required", NoData)
  ELSE IF req.totalAmount = Undefined \/ req.totalAmount = 0 \/ req.totalAmount <= 0
  THEN CheckReply(st, 400, "Valid total amount is required", NoData)
  ELSE LET discount == FindById(st.discounts, req.discountCode)
       IN IF ~discount.found
          THEN CheckReply(st, 404, "Invalid discount code", NoData)
          ELSE IF ~discount.doc.isActive
          THEN CheckReply(st, 400, "Discount code is not active", NoData)
          ELSE IF Get(discount.doc, "expiryDate") # Undefined
                  /\ Now > Get(discount.doc, "expiryDate")
          THEN CheckReply(st, 400, "Discount code has expired", NoData)
          ELSE LET user == IF req.caller.role = "user"
                           THEN FindById(st.users, req.caller.id)
                           ELSE NoDoc
                   amounts == CheckAmounts(req.totalAmount, discount.doc.discount)
               IN IF user.found /\ Includes(user.doc.usedDiscountCodes, req.discountCode)
                  THEN CheckReply(st, 400, "You have already used this discount code", NoData)
                  ELSE CheckReply(st, 200, "Discount code is valid",
                                  [present |-> TRUE,
                                   discountCode |-> discount.doc.code,
                                   discountValue |-> discount.doc.discount,
                                   discountAmount |-> ToFixed2(amounts.discountAmount),
                                   originalAmount |-> ToFixed2(req.totalAmount * 100),
                                   finalAmount |-> ToFixed2(amounts.finalAmount)])

(***************************************************************************)
(* GET /orders/track/:orderNumber (public).                                 *)
(***************************************************************************)
FindOneByOrderNumber(ords, orderNumber) ==
  IF \E o \in DOMAIN ords : ords[o].orderNumber = orderNumber
  THEN [found |-> TRUE, doc |-> ords[CHOOSE o \in DOMAIN ords : ords[o].orderNumber = orderNumber]]
  ELSE NoDoc

Populate(prods, its) ==
  [k \in 1..Len(its) |->
     [its[k] EXCEPT !.product =
        IF its[k].product \in DOMAIN prods
        THEN [found |-> TRUE, id |-> its[k].product, name |-> prods[its[k].product].name,
              price |-> prods[its[k].product].price]
        ELSE [found |-> FALSE, id |-> its[k].product, name |-> "", price |-> 0]]]

SelectWithoutContact(doc) ==
  [doc EXCEPT !.customerInfo =
     [f \in DOMAIN doc.customerInfo \ {"email", "phone", "address"} |-> doc.customerInfo[f]]]

TrackOrderResultWithEmail(st, req) ==
  LET found == FindOneByOrderNumber(st.orders, req.orderNumber)
  IN IF ~found.found
     THEN CheckReply(st, 404, "Order not found", NoData)
     ELSE CheckReply(st, 200, "",
                     [orderNumber |-> found.doc.orderNumber,
                      status |-> found.doc.status,
                      totalAmount |-> found.doc.totalAmount,
                      items |-> Populate(st.products, found.doc.items),
                      createdAt |-> Get(found.doc, "createdAt"),
                      customerName |-> found.doc.customerInfo.name,
                      customerEmail |-> found.doc.customerInfo.email])

TrackOrderResult(st, req) ==
  LET found == FindOneByOrderNumber(st.orders, req.orderNumber)
  IN IF ~found.found
     THEN CheckReply(st, 404, "Order not found", NoData)
     ELSE LET order == SelectWithoutContact(
                         [found.doc EXCEPT !.items = Populate(st.products, @)])
          IN CheckReply(st, 200, "",
                        [orderNumber |-> order.orderNumber,
                         status |-> order.status,
                         totalAmount |-> order.totalAmount,
                         items |-> order.items,
                         createdAt |-> Get(order, "createdAt"),
                         customerName |-> order.customerInfo.name])

(***************************************************************************)
(* Token check in front of every order route.                               *)
(***************************************************************************)
verifyToken(auth) ==
  IF auth = "missing" THEN [ok |-> FALSE, status |-> 401, msg |-> "No token provided"]
  ELSE IF auth = "invalid" THEN [ok |-> FALSE, status |-> 401, msg |-> "Invalid token"]
  ELSE [ok |-> TRUE, status |-> 0, msg |-> ""]

(***************************************************************************)
(* GET routes of one path segment, in the order the router registers them.  *)
(* The router runs the first route whose pattern matches the path.          *)
(***************************************************************************)
GetRoutes ==
  <<[pattern |-> <<":id">>, handler |-> "getById"],
    [pattern |-> <<"user">>, handler |-> "getUserOrders"]>>

IsParam(segment) == segment \in {":id", ":orderNumber"}

Match(pattern, path) ==
  /\ Len(pattern) = Len(path)
  /\ \A k \in 1..Len(pattern) : IsParam(pattern[k]) \/ pattern[k] = path[k]

Dispatch(routes, path) ==
  IF \E k \in 1..Len(routes) : Match(routes[k].pattern, path)
  THEN routes[CHOOSE k \in 1..Len(routes) :
                /\ Match(routes[k].pattern, path)
                /\ \A j \in 1..(k - 1) : ~Match(routes[j].pattern, path)].handler
  ELSE "none"

CastObjectId(segment) ==
  CASE segment = "1" -> [ok |-> TRUE, id |-> 1]
    [] segment = "2" -> [ok |-> TRUE, id |-> 2]
    [] segment = "9" -> [ok |-> TRUE, id |-> 9]
    [] OTHER -> [ok |-> FALSE, id |-> 0]

RECURSIVE NewestFirst(_)
NewestFirst(ids) ==
  IF ids = {} THEN <<>>
  ELSE LET newest == CHOOSE m \in ids : \A n \in ids : n <= m
       IN <<newest>> \o NewestFirst(ids \ {newest})

GetByIdResult(st, req) ==
  LET cast == CastObjectId(req.path[1])
  IN IF ~cast.ok
     THEN CheckReply(st, 500, "Error fetching order", NoData)
     ELSE IF ~FindById(st.orders, cast.id).found
     THEN CheckReply(st, 404, "Order not found", NoData)
     ELSE CheckReply(st, 200, "", [present |-> TRUE, orders |-> <<cast.id>>])

GetUserOrdersResult(st, req) ==
  IF ~verifyToken(req.auth).ok
  THEN CheckReply(st, verifyToken(req.auth).status, verifyToken(req.auth).msg, NoData)
  ELSE IF req.caller.role # "user"
  THEN CheckReply(st, 403, "Access denied", NoData)
  ELSE CheckReply(st, 200, "",
                  [present |-> TRUE,
                   orders |-> NewestFirst({o \in DOMAIN st.orders :
                                /\ "userId" \in DOMAIN st.orders[o].customerInfo
                                /\ st.orders[o].customerInfo.userId = req.caller.id})])

GetResult(st, req) ==
  LET handler == Dispatch(GetRoutes, req.path)
  IN CASE handler = "getById" -> GetByIdResult(st, req)
       [] handler = "getUserOrders" -> GetUserOrdersResult(st, req)
       [] OTHER -> CheckReply(st, 404, "Route not found", NoData)

(***************************************************************************)
(* POST /auth/create-admin: one store operation per step.                   *)
(***************************************************************************)
AdminDoc(req) ==
  [username |-> OrElse(req.username, "admin"), email |-> OrElse(req.email, "admin@example.com"),
   role |-> "super-admin"]

BeginCreateAdmin(req, existing) ==
  [pc |-> "findOne", req |-> req, status |-> 0, msg |-> "", existing |-> existing]

AdminFindOne(all, loc) ==
  IF Len(all) > 0
  THEN [loc EXCEPT !.pc = "done", !.status = 400, !.msg = "Admin already exists"]
  ELSE [loc EXCEPT !.pc = "save"]

SaveOutcomes(all, doc) ==
  IF \E k \in 1..Len(all) : all[k].username = doc.username \/ all[k].email = doc.email
  THEN {"saved", "duplicate key"}
  ELSE {"saved"}

AdminSave(all, loc, outcome) ==
  IF outcome = "saved"
  THEN [admins |-> Append(all, AdminDoc(loc.req)),
        loc |-> [loc EXCEPT !.pc = "done", !.status = 201, !.msg = "Admin created successfully"]]
  ELSE [admins |-> all,
        loc |-> [loc EXCEPT !.pc = "done", !.status = 500, !.msg = "Error creating admin"]]

(***************************************************************************)
(* Categories: POST /categories, PUT /categories/:id, DELETE                *)
(* /categories/:id and the pre-save hook of the Category model.             *)
(***************************************************************************)
LowerName(name) ==
  CASE name = "Books" -> "books"
    [] name = "BOOKS" -> "books"
    [] name = "Electronics" -> "electronics"
    [] name = "Clothing" -> "clothing"
    [] OTHER -> name

NameTaken(cats, name, except) ==
  \E c \in DOMAIN cats \ except : LowerName(cats[c].name) = LowerName(name)

PreSaveAncestors(cats, parent) ==
  IF parent # NoParent
  THEN IF parent \in DOMAIN cats THEN Append(cats[parent].ancestors, parent) ELSE <<>>
  ELSE <<>>

ReferencedIds(cats, prods) ==
  DOMAIN cats
  \cup {cats[c].parent : c \in DOMAIN cats}
  \cup UNION {{cats[c].ancestors[k] : k \in 1..Len(cats[c].ancestors)} : c \in DOMAIN cats}
  \cup {prods[p].subcategory : p \in DOMAIN prods}

NewCategoryId(cats, prods) ==
  1 + (CHOOSE m \in ReferencedIds(cats, prods) : \A n \in ReferencedIds(cats, prods) : n <= m)

CatReply(cats, status, msg) == [categories |-> cats, status |-> status, msg |-> msg]

CreateCategoryResult(cats, prods, req) ==
  IF req.name = ""
  THEN CatReply(cats, 400, "Category name is required")
  ELSE IF NameTaken(cats, req.name, {})
  THEN CatReply(cats, 400, "Category already exists")
  ELSE IF req.parent # NoParent /\ req.parent \notin DOMAIN cats
  THEN CatReply(cats, 400, "Parent category not found")
  ELSE LET id == NewCategoryId(cats, prods)
           doc == CategoryDoc(Trim(req.name), req.parent, PreSaveAncestors(cats, req.parent))
       IN CatReply([c \in DOMAIN cats \cup {id} |-> IF c = id THEN doc ELSE cats[c]],
                   201, "Category created successfully")

UpdateCategoryResult(cats, req) ==
  IF req.id \notin DOMAIN cats
  THEN CatReply(cats, 404, "Category not found")
  ELSE IF req.parent # NoParent /\ req.parent = req.id
  THEN CatReply(cats, 400, "Category cannot be its own parent")
  ELSE IF req.parent # NoParent /\ req.parent \notin DOMAIN cats
  THEN CatReply(cats, 400, "Parent category not found")
  ELSE IF req.parent # NoParent /\ Includes(cats[req.parent].ancestors, req.id)
  THEN CatReply(cats, 400, "Invalid parent - would create a circular hierarchy")
  ELSE LET category == cats[req.id]
           parent == IF req.parent # NoParent THEN req.parent ELSE category.parent
       IN IF req.name # "" /\ req.name # category.name /\ NameTaken(cats, req.name, {req.id})
          THEN CatReply(cats, 400, "Category name already exists")
          ELSE CatReply([cats EXCEPT ![req.id] =
                           CategoryDoc(IF req.name # "" THEN Trim(req.name) ELSE category.name,
                                       parent, PreSaveAncestors(cats, parent))],
                        200, "Category updated successfully")

ProductSchemaPaths ==
  {"name", "description", "price", "subcategory", "images", "stock", "isActive", "productType",
   "featured", "bestSeller", "specialOffer", "discount", "priceAfterDiscount"}

CountDocuments(prods, path, value, strictQuery) ==
  IF path \in ProductSchemaPaths
  THEN Cardinality({p \in DOMAIN prods : path \in DOMAIN prods[p] /\ prods[p][path] = value})
  ELSE IF strictQuery
  THEN Cardinality(DOMAIN prods)
  ELSE 0

DeleteCategoryResult(cats, prods, req, strictQuery) ==
  IF req.id \notin DOMAIN cats
  THEN CatReply(cats, 404, "Category not found")
  ELSE IF CountDocuments(prods, "category", req.id, strictQuery) > 0
  THEN CatReply(cats, 400, "Cannot delete category. It has product(s) associated with it.")
  ELSE CatReply([c \in DOMAIN cats \ {req.id} |-> cats[c]], 200, "Category deleted successfully")

(***************************************************************************)
(* POST /discount-codes (admin).  The handler has no try/catch: when        *)
(* newCode.save() rejects, the async handler's promise rejects.  A router   *)
(* that forwards rejected handler promises passes the error to the error    *)
(* middleware of the server; one that does not leaves the request without   *)
(* a response.                                                              *)
(***************************************************************************)
BeginCreateDiscount(req) ==
  IF req.caller.role # "admin" /\ req.caller.role # "super-admin"
  THEN [pc |-> "done", req |-> req, status |-> 403, msg |-> "Access denied"]
  ELSE [pc |-> "saveDiscount", req |-> req, status |-> 0, msg |-> ""]

RejectionOutcomes == {"forwarded", "dropped"}

ErrorMiddleware(loc) ==
  [loc EXCEPT !.pc = "done", !.status = 500, !.msg = "Something went wrong!"]

DiscountSave(codes, loc, outcome) ==
  IF loc.req.code \in DOMAIN codes
  THEN [discounts |-> codes,
        loc |-> IF outcome = "forwarded" THEN ErrorMiddleware(loc)
                ELSE [loc EXCEPT !.pc = "noResponse"]]
  ELSE [discounts |-> [c \in DOMAIN codes \cup {loc.req.code} |->
                         IF c = loc.req.code
                         THEN [code |-> loc.req.code, discount |-> loc.req.discount,
                               expiresAt |-> loc.req.expiresAt, isActive |-> TRUE]
                         ELSE codes[c]],
        loc |-> [loc EXCEPT !.pc = "done", !.status = 201]]

(***************************************************************************)
(* Requests.                                                                *)
(***************************************************************************)
User1 == [id |-> "u1", role |-> "user"]
User2 == [id |-> "u2", role |-> "user"]
Admin1 == [id |-> "a1", role |-> "admin"]
Callers == {User1, User2, Admin1}

NoContact == [name |-> "", email |-> "", phone |-> "", address |-> NoAddress]
BadContacts == {[ContactOk EXCEPT !.name = ""], [ContactOk EXCEPT !.email = ""],
                [ContactOk EXCEPT !.phone = ""]}

Line(p, q) == [product |-> p, quantity |-> q]
GoodLine == Line("p1", 3)
BadLines == {Line("p1", 11), Line("p1", 0), Line(NoProduct, 3), Line("pGone", 3),
             Line("pOff", 3)}

ItemLists ==
  UNION {{[k \in 1..n |-> GoodLine]}
         \cup {[k \in 1..n |-> IF k = j THEN b ELSE GoodLine] : j \in 1..n, b \in BadLines}
         : n \in 0..MaxItems}

Codes == {NoCode, "SAVE20", "OFF", "OLD", "NOPE"}

CodesOf(caller) == IF caller = User2 THEN {NoCode, "SAVE20"} ELSE Codes

PostReq(caller, contact, its, code, fee) ==
  [caller |-> caller, customerInfo |-> contact, items |-> its, notes |-> NoNotes,
   discountCode |-> code, deliveryFee |-> fee]

PostRequests ==
  {r \in {PostReq(c, ContactOk, its, code, fee) :
            c \in Callers, its \in ItemLists, code \in Codes, fee \in {Undefined, 5}} :
     r.discountCode \in CodesOf(r.caller)}
  \cup {PostReq(c, bad, its, code, 5) :
     c \in Callers, bad \in BadContacts, its \in {<<>>, <<Line("p1", 3)>>},
     code \in {NoCode, "SAVE20"}}

CorePostRequests ==
  {PostReq(c, ContactOk, its, code, 5) :
     c \in {User1, Admin1},
     its \in {<<Line("p1", 3)>>, <<Line("p1", 11)>>, <<Line("p2", 1)>>,
              <<Line("p1", 3), Line("p1", 0)>>},
     code \in {NoCode, "SAVE20"}}

ConcPostRequests ==
  {PostReq(c, ContactOk, its, code, 5) :
     c \in {User1, Admin1},
     its \in {<<Line("p1", 8)>>, <<Line("p1", 3)>>},
     code \in {NoCode, "SAVE20"}}

OrderIds == {1, 2, 9}
StatusInputs == validStatuses \cup {"refunded", NoStatus}

StatusRequests ==
  {[caller |-> c, id |-> id, status |-> s] :
     c \in {User1, Admin1}, id \in OrderIds, s \in StatusInputs}

PutRequests ==
  {[caller |-> c, id |-> id, customerInfo |-> NoContact, status |-> s, notes |-> NoNotes] :
     c \in {User1, Admin1}, id \in OrderIds, s \in StatusInputs}

DeleteRequests == {[caller |-> c, id |-> id] : c \in {User1, Admin1}, id \in OrderIds}

CheckRequests ==
  {[caller |-> c, discountCode |-> code, totalAmount |-> amount] :
     c \in Callers, code \in Codes \cup {"BIG"}, amount \in {Undefined, 0, -5, 55, 100}}

DiscountPostRequests ==
  {PostReq(c, ContactOk, <<GoodLine>>, code, 5) : c \in {User1, User2}, code \in {"SAVE20", "OLD"}}

ContactEdit ==
  [name |-> " Bob ", email |-> " Bob@Shop.Test ", phone |-> " 0200 ",
   address |-> [present |-> TRUE, street |-> "1 Main St", city |-> ""]]

ContactPhoneOnly == [NoContact EXCEPT !.phone = " 0200 "]

EditStatusInputs == {NoStatus, "refunded", "shipped", "cancelled"}

EditPatchRequests ==
  {[caller |-> Admin1, id |-> id, status |-> s] : id \in {1, 9}, s \in EditStatusInputs}

EditPutRequests ==
  {[caller |-> Admin1, id |-> id, customerInfo |-> c, status |-> s, notes |-> n] :
     id \in {1, 9}, c \in {NoContact, ContactEdit, ContactPhoneOnly}, s \in EditStatusInputs,
     n \in {NoNotes, " call first "}}

TrackRequests ==
  {[orderNumber |-> n] : n \in {<<"ORD", 10, 1>>, <<"ORD", 20, 2>>, <<"ORD", 0, 0>>}}

GetRequests ==
  {[auth |-> "valid", caller |-> c, path |-> <<seg>>] :
     c \in {User1, Admin1}, seg \in {"user", "1", "2", "9"}}
  \cup {[auth |-> "missing", caller |-> Admin1, path |-> <<"user">>]}

CreateAdminRequests ==
  {[username |-> "", email |-> ""], [username |-> "root", email |-> "root@shop.test"]}

CategoryIds == 1..MaxCategories \cup {9}

CreateCategoryRequests ==
  {[name |-> n, parent |-> par] : n \in {"", "Books", "BOOKS"}, par \in {NoParent, 1, 9}}

UpdateCategoryRequests ==
  {[id |-> id, name |-> "", parent |-> par] :
     id \in CategoryIds, par \in CategoryIds \cup {NoParent}}
  \cup {[id |-> 2, name |-> n, parent |-> NoParent] : n \in {"Clothing", "Electronics"}}

DeleteCategoryRequests == {[id |-> id] : id \in CategoryIds}

CreateDiscountRequests ==
  {[caller |-> c, code |-> code, discount |-> 10, expiresAt |-> 200] :
     c \in {User1, Admin1}, code \in {"SAVE20", "NEW10"}}

(***************************************************************************)
(* State.                                                                   *)
(***************************************************************************)
NoResp == [op |-> "none"]
Idle == [pc |-> "idle"]

CurStore == Store(products, orders, users, discounts)

WithinBounds(st) ==
  /\ \A p \in DOMAIN st.products : st.products[p].stock <= MaxStock
  /\ \A u \in DOMAIN st.users : Len(st.users[u].usedDiscountCodes) <= MaxUsed

Init ==
  /\ products = InitProducts
  /\ orders = InitOrders
  /\ users = InitUsers
  /\ discounts = InitDiscounts
  /\ resp = NoResp
  /\ inflight = [s \in 1..MaxSlots |-> Idle]
  /\ admins = <<>>
  /\ categories = InitCategories

Commit(st) ==
  /\ WithinBounds(st)
  /\ products' = st.products
  /\ orders' = st.orders
  /\ users' = st.users
  /\ discounts' = st.discounts
  /\ UNCHANGED <<admins, categories>>

(***************************************************************************)
(* One request at a time: the handler runs to its response.                 *)
(***************************************************************************)
PostOrder(req) ==
  /\ resp = NoResp
  /\ LET r == RunPost(CurStore, Begin(req))
     IN /\ Commit(r.store)
        /\ resp' = [op |-> "post", req |-> req, status |-> r.loc.status, msg |-> r.loc.msg,
                    available |-> r.loc.available, requested |-> r.loc.requested,
                    orderId |-> r.loc.orderId, before |-> CurStore]
  /\ UNCHANGED inflight

Answer(op, req, r) ==
  /\ Commit(r.store)
  /\ resp' = [op |-> op, req |-> req, status |-> r.status, msg |-> r.msg, before |-> CurStore]
  /\ UNCHANGED inflight

PatchStatus(req) == resp = NoResp /\ Answer("patch", req, PatchStatusResult(CurStore, req))

PutOrder(req) == resp = NoResp /\ Answer("put", req, PutOrderResult(CurStore, req))

DeleteOrder(req) == resp = NoResp /\ Answer("delete", req, DeleteOrderResult(CurStore, req))

Unauthorized(op, auth) ==
  /\ resp = NoResp
  /\ ~verifyToken(auth).ok
  /\ Answer(op, [auth |-> auth], Reply(CurStore, verifyToken(auth).status, verifyToken(auth).msg))

Deliver ==
  /\ resp # NoResp
  /\ resp' = NoResp
  /\ UNCHANGED <<products, orders, users, discounts, inflight, admins, categories>>

GetOrders(req) ==
  /\ resp = NoResp
  /\ LET r == GetResult(CurStore, req)
     IN /\ Commit(r.store)
        /\ resp' = [op |-> "get", req |-> req, status |-> r.status, msg |-> r.msg,
                    data |-> r.data, before |-> CurStore]
  /\ UNCHANGED inflight

Next ==
  \/ \E req \in CorePostRequests : PostOrder(req)
  \/ \E req \in GetRequests : GetOrders(req)
  \/ \E req \in StatusRequests : PatchStatus(req)
  \/ \E req \in PutRequests : PutOrder(req)
  \/ \E req \in DeleteRequests : DeleteOrder(req)
  \/ \E op \in {"post", "patch", "put", "delete"}, auth \in {"missing", "invalid"} :
       Unauthorized(op, auth)
  \/ Deliver

Spec == Init /\ [][Next]_vars

NextPlace ==
  \/ \E req \in PostRequests : PostOrder(req)
  \/ Deliver

SpecPlace == Init /\ [][NextPlace]_vars

(***************************************************************************)
(* Placements whose item list names a product in several lines, between    *)
(* status updates and deletions that change the stock they meet.            *)
(***************************************************************************)
LineRequests ==
  {PostReq(c, ContactOk, its, NoCode, 5) :
     c \in {User1, Admin1},
     its \in {<<Line("p1", 6), Line("p1", 6)>>, <<Line("p1", 3), Line("p1", 3)>>,
              <<Line("p1", 6), Line("p1", 7)>>, <<Line("p1", 6)>>}}

NextLines ==
  \/ \E req \in LineRequests : PostOrder(req)
  \/ \E req \in StatusRequests : PatchStatus(req)
  \/ \E req \in DeleteRequests : DeleteOrder(req)
  \/ Deliver

SpecLines == Init /\ [][NextLines]_vars

(***************************************************************************)
(* Discount preview next to order placement.                                *)
(***************************************************************************)
CheckDiscount(req) ==
  /\ resp = NoResp
  /\ LET r == CheckDiscountResult(CurStore, req)
     IN /\ Commit(r.store)
        /\ resp' = [op |-> "check", req |-> req, status |-> r.status, msg |-> r.msg,
                    data |-> r.data, before |-> CurStore]
  /\ UNCHANGED inflight

NextDiscount ==
  \/ \E req \in CheckRequests : CheckDiscount(req)
  \/ \E req \in DiscountPostRequests : PostOrder(req)
  \/ \E auth \in {"missing", "invalid"} : Unauthorized("check", auth)
  \/ Deliver

SpecDiscount == Init /\ [][NextDiscount]_vars

(***************************************************************************)
(* Order edits with a full request body.                                    *)
(***************************************************************************)
TrackOrder(req) ==
  /\ resp = NoResp
  /\ LET r == TrackOrderResult(CurStore, req)
     IN /\ Commit(r.store)
        /\ resp' = [op |-> "track", req |-> req, status |-> r.status, msg |-> r.msg,
                    data |-> r.data, before |-> CurStore]
  /\ UNCHANGED inflight

NextEdit ==
  \/ \E req \in EditPatchRequests : PatchStatus(req)
  \/ \E req \in EditPutRequests : PutOrder(req)
  \/ \E req \in TrackRequests : TrackOrder(req)
  \/ Deliver

SpecEdit == Init /\ [][NextEdit]_vars

(***************************************************************************)
(* Interleaved POST /orders requests: one store operation per step.         *)
(***************************************************************************)
Arrive(s, req) ==
  /\ inflight[s] = Idle
  /\ inflight' = [inflight EXCEPT ![s] = Begin(req)]
  /\ UNCHANGED <<products, orders, users, discounts, resp, admins, categories>>

PostPcs == {"findProduct", "findUser", "saveUser", "findDiscount", "saveOrder", "decStock"}

StoreOp(s) ==
  /\ inflight[s] # Idle
  /\ inflight[s].pc \in PostPcs
  /\ LET n == PostStep(CurStore, inflight[s])
     IN /\ Commit(n.store)
        /\ inflight' = [inflight EXCEPT ![s] = n.loc]
  /\ UNCHANGED resp

Respond(s) ==
  /\ inflight[s] # Idle
  /\ inflight[s].pc = "done"
  /\ inflight' = [inflight EXCEPT ![s] = Idle]
  /\ UNCHANGED <<products, orders, users, discounts, resp, admins, categories>>

NextConc ==
  \/ \E s \in 1..MaxSlots, req \in ConcPostRequests : Arrive(s, req)
  \/ \E s \in 1..MaxSlots : StoreOp(s)
  \/ \E s \in 1..MaxSlots : Respond(s)

SpecConc == Init /\ [][NextConc]_vars

(***************************************************************************)
(* Interleaved POST /orders requests with the draw of Math.random: the      *)
(* suffix of the order number is floor(Math.random() * 1000), drawn anew    *)
(* by every request; all requests run within the millisecond Now.           *)
(***************************************************************************)
RandomDraws == 0..MaxDraw

NumberRequests ==
  {PostReq(Admin1, ContactOk, <<Line("p1", 3)>>, NoCode, 5),
   PostReq(User1, ContactOk, <<Line("p1", 3)>>, "SAVE20", 5)}

ArriveDrawing(s, req, draw) ==
  /\ inflight[s] = Idle
  /\ inflight' = [inflight EXCEPT ![s] = [Begin(req) EXCEPT !.random = draw]]
  /\ UNCHANGED <<products, orders, users, discounts, resp, admins, categories>>

NextNumber ==
  \/ \E s \in 1..MaxSlots, req \in NumberRequests, draw \in RandomDraws :
       ArriveDrawing(s, req, draw)
  \/ \E s \in 1..MaxSlots : StoreOp(s)
  \/ \E s \in 1..MaxSlots : Respond(s)

SpecNumber == Init /\ [][NextNumber]_vars

(***************************************************************************)
(* Interleaved POST /auth/create-admin requests.                            *)
(***************************************************************************)
ArriveCreateAdmin(s, req) ==
  /\ inflight[s] = Idle
  /\ inflight' = [inflight EXCEPT ![s] = BeginCreateAdmin(req, Len(admins))]
  /\ UNCHANGED <<products, orders, users, discounts, resp, admins, categories>>

FindAdmin(s) ==
  /\ inflight[s] # Idle
  /\ inflight[s].pc = "findOne"
  /\ inflight' = [inflight EXCEPT ![s] = AdminFindOne(admins, inflight[s])]
  /\ UNCHANGED <<products, orders, users, discounts, resp, admins, categories>>

SaveAdmin(s) ==
  /\ inflight[s] # Idle
  /\ inflight[s].pc = "save"
  /\ \E outcome \in SaveOutcomes(admins, AdminDoc(inflight[s].req)) :
       LET r == AdminSave(admins, inflight[s], outcome)
       IN /\ admins' = r.admins
          /\ inflight' = [inflight EXCEPT ![s] = r.loc]
  /\ UNCHANGED <<products, orders, users, discounts, resp, categories>>

NextAdmin ==
  \/ \E s \in 1..MaxSlots, req \in CreateAdminRequests : ArriveCreateAdmin(s, req)
  \/ \E s \in 1..MaxSlots : FindAdmin(s)
  \/ \E s \in 1..MaxSlots : SaveAdmin(s)
  \/ \E s \in 1..MaxSlots : Respond(s)

SpecAdmin == Init /\ [][NextAdmin]_vars

(***************************************************************************)
(* Category maintenance, one request at a time.                             *)
(***************************************************************************)
AnswerCategory(op, req, r) ==
  /\ \A c \in DOMAIN r.categories :
       c <= MaxCategories /\ Len(r.categories[c].ancestors) <= MaxDepth
  /\ categories' = r.categories
  /\ resp' = [op |-> op, req |-> req, status |-> r.status, msg |-> r.msg,
              before |-> categories]
  /\ UNCHANGED <<products, orders, users, discounts, inflight, admins>>

CreateCategory(req) ==
  /\ resp = NoResp
  /\ AnswerCategory("createCategory", req, CreateCategoryResult(categories, products, req))

UpdateCategory(req) ==
  /\ resp = NoResp
  /\ AnswerCategory("updateCategory", req, UpdateCategoryResult(categories, req))

DeleteCategory(req, strictQuery) ==
  /\ resp = NoResp
  /\ AnswerCategory("deleteCategory", req,
                    DeleteCategoryResult(categories, products, req, strictQuery))

NextTree ==
  \/ \E req \in CreateCategoryRequests : CreateCategory(req)
  \/ \E req \in UpdateCategoryRequests : UpdateCategory(req)
  \/ Deliver

SpecTree == Init /\ [][NextTree]_vars

NextCat ==
  \/ \E req \in CreateCategoryRequests : CreateCategory(req)
  \/ \E req \in DeleteCategoryRequests, strictQuery \in BOOLEAN : DeleteCategory(req, strictQuery)
  \/ Deliver

SpecCat == Init /\ [][NextCat]_vars

(***************************************************************************)
(* Requests in flight on the order routes and the discount-code routes.     *)
(* A handler whose store operation is pending eventually continues, and a   *)
(* finished handler's response is eventually sent.                          *)
(***************************************************************************)
ArriveCreateDiscount(s, req) ==
  /\ inflight[s] = Idle
  /\ inflight' = [inflight EXCEPT ![s] = BeginCreateDiscount(req)]
  /\ UNCHANGED <<products, orders, users, discounts, resp, admins, categories>>

SaveDiscount(s, outcome) ==
  /\ inflight[s] # Idle
  /\ inflight[s].pc = "saveDiscount"
  /\ LET r == DiscountSave(discounts, inflight[s], outcome)
     IN /\ discounts' = r.discounts
        /\ inflight' = [inflight EXCEPT ![s] = r.loc]
  /\ UNCHANGED <<products, orders, users, resp, admins, categories>>

NextFail ==
  \/ \E s \in 1..MaxSlots, req \in ConcPostRequests : Arrive(s, req)
  \/ \E s \in 1..MaxSlots : StoreOp(s)
  \/ \E s \in 1..MaxSlots, req \in CreateDiscountRequests : ArriveCreateDiscount(s, req)
  \/ \E s \in 1..MaxSlots, outcome \in RejectionOutcomes : SaveDiscount(s, outcome)
  \/ \E s \in 1..MaxSlots : Respond(s)

SpecFail ==
  /\ Init
  /\ [][NextFail]_vars
  /\ \A s \in 1..MaxSlots :
       /\ WF_vars(StoreOp(s))
       /\ WF_vars(\E outcome \in RejectionOutcomes : SaveDiscount(s, outcome))
       /\ WF_vars(Respond(s))

(***************************************************************************)
(* Interleaved requests that restore stock: PATCH /orders/:id/status,       *)
(* PUT /orders/:id and DELETE /orders/:id, one store operation per step.    *)
(* The handler keeps the order document it read (loc.order) and decides on  *)
(* its status; order.save writes the paths the handler assigned.            *)
(* order.save of a document that was deleted meanwhile either rejects       *)
(* (DocumentNotFoundError, answered 500 by the catch block) or writes       *)
(* nothing, depending on the Mongoose version.  The populate that follows   *)
(* the save of PUT only reads.                                              *)
(***************************************************************************)
RestorePcs == {"findOrder", "restore", "write"}

SaveMissingOutcomes == {"thrown", "ignored"}

BeginRestore(req) ==
  LET loc == [pc |-> "findOrder", op |-> req.op, req |-> req, order |-> NoDoc, k |-> 1,
              setStatus |-> FALSE, status |-> 0, msg |-> ""]
  IN IF req.op = "patch" /\ (req.status = NoStatus \/ req.status \notin validStatuses)
     THEN Done(loc, 400, "Invalid status")
     ELSE loc

StepFindOrder(st, loc) ==
  LET order == FindById(st.orders, loc.req.id)
      changing == CASE loc.op = "patch" -> TRUE
                    [] loc.op = "put" -> loc.req.status # NoStatus
                                          /\ loc.req.status # order.doc.status
                    [] OTHER -> FALSE
      restoring == IF loc.op = "delete"
                   THEN order.doc.status # "cancelled"
                   ELSE changing /\ loc.req.status = "cancelled"
                        /\ order.doc.status # "cancelled"
  IN IF ~order.found
     THEN Done(loc, 404, "Order not found")
     ELSE IF loc.op = "put" /\ changing /\ loc.req.status \notin validStatuses
     THEN Done(loc, 400, "Invalid status")
     ELSE [loc EXCEPT !.order = order, !.setStatus = changing, !.k = 1,
                      !.pc = IF restoring /\ Len(order.doc.items) > 0
                             THEN "restore" ELSE "write"]

StepRestoreItem(st, loc) ==
  LET item == loc.order.doc.items[loc.k]
  IN [store |-> [st EXCEPT !.products = IncStock(@, item.product, item.quantity)],
      loc |-> IF loc.k = Len(loc.order.doc.items)
              THEN [loc EXCEPT !.pc = "write"]
              ELSE [loc EXCEPT !.k = @ + 1]]

StepWriteOrder(st, loc, outcome) ==
  IF loc.op = "delete"
  THEN [store |-> [st EXCEPT !.orders =
                     IF loc.req.id \in DOMAIN @ THEN RemoveOrder(@, loc.req.id) ELSE @],
        loc |-> Done(loc, 200, "Order deleted successfully")]
  ELSE IF loc.req.id \notin DOMAIN st.orders
  THEN [store |-> st,
        loc |-> IF outcome = "thrown"
                THEN Done(loc, 500, IF loc.op = "patch" THEN "Error updating order status"
                                    ELSE "Error updating order")
                ELSE Done(loc, 200, IF loc.op = "patch"
                                    THEN "Order status updated successfully"
                                    ELSE "Order updated successfully")]
  ELSE [store |-> [st EXCEPT !.orders[loc.req.id] =
                     [@ EXCEPT
                        !.status = IF loc.setStatus THEN loc.req.status ELSE @,
                        !.customerInfo = IF loc.op = "put"
                                         THEN UpdateContact(@, loc.req.customerInfo) ELSE @,
                        !.notes = IF loc.op = "put" /\ loc.req.notes # NoNotes
                                  THEN Trim(loc.req.notes) ELSE @]],
        loc |-> Done(loc, 200, IF loc.op = "patch" THEN "Order status updated successfully"
                               ELSE "Order updated successfully")]

RestoreStep(st, loc, outcome) ==
  CASE loc.pc = "findOrder" -> [store |-> st, loc |-> StepFindOrder(st, loc)]
    [] loc.pc = "restore" -> StepRestoreItem(st, loc)
    [] loc.pc = "write" -> StepWriteOrder(st, loc, outcome)
    [] OTHER -> [store |-> st, loc |-> loc]

RestoreRequests ==
  {[op |-> op, caller |-> Admin1, id |-> id, customerInfo |-> NoContact,
    status |-> "cancelled", notes |-> NoNotes] : op \in {"patch", "put"}, id \in {1, 2}}
  \cup {[op |-> "delete", caller |-> Admin1, id |-> id, customerInfo |-> NoContact,
         status |-> NoStatus, notes |-> NoNotes] : id \in {1, 2}}

ArriveRestore(s, req) ==
  /\ inflight[s] = Idle
  /\ inflight' = [inflight EXCEPT ![s] = BeginRestore(req)]
  /\ UNCHANGED <<products, orders, users, discounts, resp, admins, categories>>

RestoreOp(s, outcome) ==
  /\ inflight[s] # Idle
  /\ inflight[s].pc \in RestorePcs
  /\ LET n == RestoreStep(CurStore, inflight[s], outcome)
     IN /\ Commit(n.store)
        /\ inflight' = [inflight EXCEPT ![s] = n.loc]
  /\ UNCHANGED resp

NextRestore ==
  \/ \E s \in 1..MaxSlots, req \in RestoreRequests : ArriveRestore(s, req)
  \/ \E s \in 1..MaxSlots, outcome \in SaveMissingOutcomes : RestoreOp(s, outcome)
  \/ \E s \in 1..MaxSlots : Respond(s)

SpecRestore == Init /\ [][NextRestore]_vars

(***************************************************************************)
(* Properties.                                                              *)
(***************************************************************************)
RECURSIVE QtyOf(_, _)
QtyOf(its, p) ==
  IF Len(its) = 0 THEN 0
  ELSE (IF its[1].product = p THEN its[1].quantity ELSE 0) + QtyOf(Tail(its), p)

RECURSIVE Reserved(_, _, _)
Reserved(ords, ids, p) ==
  IF ids = {} THEN 0
  ELSE LET o == CHOOSE x \in ids : TRUE
       IN QtyOf(ords[o].items, p) + Reserved(ords, ids \ {o}, p)

PlacedIds == {o \in DOMAIN orders : o > 100}

ContactPresent(req) ==
  req.customerInfo.name # "" /\ req.customerInfo.email # "" /\ req.customerInfo.phone # ""

ItemWellFormed(item) == item.product # NoProduct /\ item.quantity > 0

ItemAvailable(st, item) ==
  /\ item.product \in DOMAIN st.products
  /\ st.products[item.product].isActive
  /\ st.products[item.product].stock >= item.quantity

ValidPlacement(st, req) ==
  /\ ContactPresent(req)
  /\ Len(req.items) > 0
  /\ \A k \in 1..Len(req.items) :
       ItemWellFormed(req.items[k]) /\ ItemAvailable(st, req.items[k])

\* C1: after any sequence of order placements, status updates and order
\* deletions every product's stock is >= 0.
C1_StockNeverNegative == \A p \in DOMAIN products : products[p].stock >= 0

C1_Witness ==
  /\ resp.op = "post"
  /\ 2 \notin DOMAIN orders
  /\ 1 \in DOMAIN orders
  /\ orders[1].status = "cancelled"
  /\ products["p1"].stock = 15

C3_ValidOrderAccepted ==
  (resp.op = "post" /\ ValidPlacement(resp.before, resp.req)
     /\ resp.req.discountCode = NoCode)
  => /\ resp.status = 201
     /\ resp.orderId \notin DOMAIN resp.before.orders
     /\ DOMAIN orders = DOMAIN resp.before.orders \cup {resp.orderId}
     /\ orders[resp.orderId].status = "pending"
     /\ \A p \in DOMAIN products :
          products[p].stock = resp.before.products[p].stock - QtyOf(resp.req.items, p)

RECURSIVE LinesTotal(_)
LinesTotal(its) ==
  IF Len(its) = 0 THEN 0 ELSE its[1].price * its[1].quantity + LinesTotal(Tail(its))

\* C4: the order persisted by a valid POST /orders satisfies
\* totalAmount = max(0, subtotal - discountAmount + deliveryFee), with
\* deliveryFee 0 when the request omits it and subtotal built from the unit
\* prices snapshotted into the order's lines.
C4_TotalFromSnapshot ==
  (resp.op = "post" /\ ValidPlacement(resp.before, resp.req)
     /\ resp.req.discountCode = NoCode)
  => /\ resp.orderId \in DOMAIN orders
     /\ LET o == orders[resp.orderId]
        IN /\ o.deliveryFee = (IF resp.req.deliveryFee = Undefined THEN 0
                               ELSE resp.req.deliveryFee)
           /\ o.subtotal = LinesTotal(o.items)
           /\ o.totalAmount = Max(0, o.subtotal - o.discountAmount + o.deliveryFee)

\* C5: POST /orders containing a line whose product does not exist, is
\* inactive or has stock < the requested quantity is answered 400 (an
\* insufficient-stock answer carries available and requested); no order is
\* persisted and no product's stock changes.
C5_UnavailableLineRejected ==
  (resp.op = "post"
     /\ \E k \in 1..Len(resp.req.items) :
          ItemWellFormed(resp.req.items[k]) /\ ~ItemAvailable(resp.before, resp.req.items[k]))
  => /\ resp.status = 400
     /\ resp.msg = "Insufficient stock" =>
          resp.available # Undefined /\ resp.requested > resp.available
     /\ orders = resp.before.orders
     /\ products = resp.before.products

\* C6: POST /orders with a missing name, email or phone, an empty item list,
\* or an item without product or with quantity <= 0 at any position is
\* answered 400 and changes no order, no stock and no user's consumed codes.
C6_InvalidRequestChangesNothing ==
  (resp.op = "post"
     /\ \/ ~ContactPresent(resp.req)
        \/ Len(resp.req.items) = 0
        \/ \E k \in 1..Len(resp.req.items) : ~ItemWellFormed(resp.req.items[k]))
  => /\ resp.status = 400
     /\ orders = resp.before.orders
     /\ products = resp.before.products
     /\ users = resp.before.users

\* C7: setting a non-cancelled order to cancelled (PATCH status or PUT)
\* increases each product's stock by exactly the quantities of the order's
\* lines; requesting cancelled for an order that is already cancelled changes
\* no stock.
C7_CancelRestoresOnce ==
  (resp.op \in {"patch", "put"} /\ resp.status = 200 /\ resp.req.status = "cancelled"
     /\ resp.req.id \in DOMAIN resp.before.orders)
  => LET o == resp.before.orders[resp.req.id]
     IN /\ orders[resp.req.id].status = "cancelled"
        /\ \A p \in DOMAIN products :
             products[p].stock = resp.before.products[p].stock
                                 + (IF o.status # "cancelled" THEN QtyOf(o.items, p) ELSE 0)

C7_Witness ==
  /\ resp.op = "patch"
  /\ resp.status = 200
  /\ resp.req.status = "cancelled"
  /\ resp.req.id = 2
  /\ resp.before.orders[2].status = "cancelled"
  /\ products["p1"].stock = InitProducts["p1"].stock + 2
  /\ products["p2"].stock = InitProducts["p2"].stock + 1

\* C8: DELETE /orders/:id of a non-cancelled order increases each product's
\* stock by the quantities of the order's lines and removes the order; of a
\* cancelled order it removes the order and changes no stock; the order no
\* longer exists afterwards, and deleting an id that does not exist is answered
\* 404 and changes nothing.
C8_DeleteRestoresThenRemoves ==
  resp.op = "delete" /\ resp.status # 401
  => IF resp.req.id \in DOMAIN resp.before.orders
     THEN LET o == resp.before.orders[resp.req.id]
          IN /\ resp.status = 200
             /\ orders = RemoveOrder(resp.before.orders, resp.req.id)
             /\ \A p \in DOMAIN products :
                  products[p].stock = resp.before.products[p].stock
                                      + (IF o.status # "cancelled" THEN QtyOf(o.items, p) ELSE 0)
     ELSE /\ resp.status = 404
          /\ orders = resp.before.orders
          /\ products = resp.before.products

C8_Witness ==
  /\ resp.op = "delete"
  /\ resp.status = 404
  /\ resp.req.id = 2
  /\ products["p1"].stock = InitProducts["p1"].stock + 2
  /\ products["p2"].stock = InitProducts["p2"].stock + 1

UsableCode(st, code) ==
  /\ code \in DOMAIN st.discounts
  /\ st.discounts[code].isActive
  /\ st.discounts[code].expiresAt >= Now

\* C9: for a caller of role user, POST /orders with a discount code that is in
\* that user's consumed codes is answered 400; the same code, active and
\* unexpired, is not answered "already used" for a different user who has not
\* consumed it, also when that user's order has more than one line.
C9_UsedCodePerUser ==
  (resp.op = "post" /\ resp.req.caller.role = "user" /\ resp.req.discountCode # NoCode)
  => LET used == resp.before.users[resp.req.caller.id].usedDiscountCodes
     IN /\ Includes(used, resp.req.discountCode) => resp.status = 400
        /\ (~Includes(used, resp.req.discountCode)
              /\ UsableCode(resp.before, resp.req.discountCode))
           => resp.msg # "Discount code already used by this user"

C9_Witness ==
  /\ resp.op = "post"
  /\ resp.req.caller = User2
  /\ resp.req.discountCode = "SAVE20"
  /\ Len(resp.req.items) = 2
  /\ ValidPlacement(resp.before, resp.req)
  /\ Includes(resp.before.users["u1"].usedDiscountCodes, "SAVE20")
  /\ ~Includes(resp.before.users["u2"].usedDiscountCodes, "SAVE20")
  /\ resp.msg # "Discount code already used by this user"
  /\ Includes(users["u2"].usedDiscountCodes, "SAVE20")

\* C10: POST /orders that supplies a discount code is rejected (400 or 404),
\* whatever the caller's role, when the code is not in the registry, is
\* inactive, or has expiresAt earlier than the current time; no order is
\* created and no stock changes.
C10_BadCodeRejected ==
  (resp.op = "post" /\ ValidPlacement(resp.before, resp.req)
     /\ resp.req.discountCode # NoCode
     /\ ~UsableCode(resp.before, resp.req.discountCode))
  => /\ resp.status \in {400, 404}
     /\ orders = resp.before.orders
     /\ products = resp.before.products

Checked == resp.op = "check" /\ resp.status # 401

UsedBy(st, caller, code) ==
  /\ caller.role = "user"
  /\ caller.id \in DOMAIN st.users
  /\ Includes(st.users[caller.id].usedDiscountCodes, code)

Hundredths(printed) == printed.whole * 100 + printed.frac

\* C11: for a code that exists, is active, is unexpired and has not been used
\* by the caller, POST /orders/check-discount with a subtotal S > 0 answers 200
\* with discountAmount = S * percentage / 100 and finalAmount =
\* max(0, S - discountAmount); a missing code or S <= 0 is answered 400.
C11_PreviewAmounts ==
  Checked =>
    LET S == resp.req.totalAmount
        code == resp.req.discountCode
    IN /\ (code = NoCode \/ S = Undefined \/ S <= 0) => resp.status = 400
       /\ (code # NoCode /\ S # Undefined /\ S > 0 /\ UsableCode(resp.before, code)
             /\ ~UsedBy(resp.before, resp.req.caller, code))
          => /\ resp.status = 200
             /\ Hundredths(resp.data.discountAmount) = S * resp.before.discounts[code].discount
             /\ Hundredths(resp.data.finalAmount)
                  = Max(0, S * 100 - S * resp.before.discounts[code].discount)

C11_Witness ==
  /\ Checked
  /\ resp.req.discountCode = "SAVE20"
  /\ resp.req.totalAmount = 100
  /\ resp.status = 200
  /\ resp.data.discountAmount = [whole |-> 20, frac |-> 0]
  /\ resp.data.finalAmount = [whole |-> 80, frac |-> 0]

\* C12: POST /orders/check-discount answers 404 for an unknown code and 400
\* for an inactive code, a code whose expiresAt is earlier than the current
\* time, or a code in the calling user's consumed codes; it reports a code
\* valid only if the code passes all four checks.
C12_PreviewChecksValidity ==
  (Checked /\ resp.req.discountCode # NoCode /\ resp.req.totalAmount > 0)
  => LET code == resp.req.discountCode
         known == code \in DOMAIN resp.before.discounts
     IN /\ ~known => resp.status = 404
        /\ (known /\ (~resp.before.discounts[code].isActive
                        \/ resp.before.discounts[code].expiresAt < Now
                        \/ UsedBy(resp.before, resp.req.caller, code)))
           => resp.status = 400
        /\ resp.status = 200
           => UsableCode(resp.before, code) /\ ~UsedBy(resp.before, resp.req.caller, code)

\* C13: POST /orders/check-discount changes no stored state: orders, product
\* stock, discount codes and every user's consumed codes are the same before
\* and after the call, accepted or rejected, so a later POST /orders has the
\* same outcome as without the call.
C13_PreviewChangesNothing ==
  resp.op = "check"
  => /\ CurStore = resp.before
     /\ \A r \in DiscountPostRequests :
          RunPost(CurStore, Begin(r)) = RunPost(resp.before, Begin(r))

C13_Witness ==
  /\ Checked
  /\ resp.status = 200
  /\ resp.req.caller = User2
  /\ resp.req.discountCode = "SAVE20"
  /\ Includes(users["u1"].usedDiscountCodes, "SAVE20")
  /\ ~Includes(users["u2"].usedDiscountCodes, "SAVE20")
  /\ RunPost(CurStore, Begin(PostReq(User2, ContactOk, <<GoodLine>>, "SAVE20", 5))).store.users["u2"].usedDiscountCodes
       = <<"SAVE20">>

\* C14: every stored order's status is one of pending, confirmed,
\* processing, shipped, delivered, cancelled; PATCH /orders/:id/status with a
\* missing or other status, and PUT /orders/:id of a stored order with another
\* status, are answered 400 and leave every order (status and other fields)
\* and all product stock unchanged.
C14_StatusAlwaysValid ==
  /\ \A o \in DOMAIN orders : orders[o].status \in validStatuses
  /\ (resp.op = "patch" /\ resp.req.status \notin validStatuses)
     => resp.status = 400 /\ orders = resp.before.orders /\ products = resp.before.products
  /\ (resp.op = "put" /\ resp.req.status \notin validStatuses \cup {NoStatus}
        /\ resp.req.id \in DOMAIN resp.before.orders)
     => resp.status = 400 /\ orders = resp.before.orders /\ products = resp.before.products

C14_Witness ==
  /\ resp.op = "put"
  /\ resp.req.id = 1
  /\ resp.req.status = "refunded"
  /\ resp.req.customerInfo = ContactEdit
  /\ resp.req.notes = " call first "
  /\ resp.status = 400
  /\ orders[1].status = "shipped"
  /\ orders[1].customerInfo.name = "Ann"
  /\ orders[1].notes = ""

\* C15: a request with a valid token of role user to PATCH
\* /orders/:id/status, PUT /orders/:id or DELETE /orders/:id is refused and
\* changes no order and no product stock.
C15_UserRoleRefused ==
  (resp.op \in {"patch", "put", "delete"} /\ resp.status # 401
     /\ resp.req.caller.role = "user")
  => /\ resp.status = 403
     /\ orders = resp.before.orders
     /\ products = resp.before.products

OtherContacts ==
  {[email |-> e, phone |-> ph, address |-> a] :
     e \in {"ann@shop.test", "eve@else.test"}, ph \in {"0100", "0999"},
     a \in {[street |-> "", city |-> ""], [street |-> "9 Elm Rd", city |-> "Giza"]}}

WithContact(st, o, c) ==
  [st EXCEPT !.orders[o].customerInfo =
     [@ EXCEPT !.email = c.email, !.phone = c.phone, !.address = c.address]]

\* C16: the answer of GET /orders/track/:orderNumber does not depend on the
\* order's customer email, phone or address: on a store that differs only in
\* those fields of an order the answer is identical, and the only contact
\* detail in the answer is the customer name.
C16_TrackHidesContact ==
  resp.op = "track"
  => /\ \A o \in DOMAIN resp.before.orders, c \in OtherContacts :
          LET r == TrackOrderResult(WithContact(resp.before, o, c), resp.req)
          IN r.status = resp.status /\ r.msg = resp.msg /\ r.data = resp.data
     /\ resp.status = 200
        => /\ DOMAIN resp.data = {"orderNumber", "status", "totalAmount", "items",
                                  "createdAt", "customerName"}
           /\ \E o \in DOMAIN resp.before.orders :
                /\ resp.before.orders[o].orderNumber = resp.req.orderNumber
                /\ resp.data.customerName = resp.before.orders[o].customerInfo.name

C16_Witness ==
  /\ resp.op = "track"
  /\ resp.status = 200
  /\ resp.req.orderNumber = <<"ORD", 10, 1>>
  /\ orders[1].customerInfo.email = "bob@shop.test"
  /\ orders[1].customerInfo.address.street = "1 Main St"
  /\ resp.data.customerName = "Bob"

OrdersOf(st, caller) == {o \in DOMAIN st.orders : st.orders[o].user = caller.id}

\* C18: GET /orders/user with a valid token of role user is answered 200 with
\* exactly the orders that user placed through POST /orders under the same
\* identity, newest first, and 403 for a token of any other role.
C18_UserSeesOwnOrders ==
  (resp.op = "get" /\ resp.req.path = <<"user">> /\ resp.req.auth = "valid")
  => IF resp.req.caller.role = "user"
     THEN /\ resp.status = 200
          /\ resp.data.orders = NewestFirst(OrdersOf(resp.before, resp.req.caller))
     ELSE resp.status = 403

\* C19: POST /auth/create-admin creates an admin only if none exists: after
\* any sequence or interleaving of create-admin requests at most one admin has
\* been created, and a request that arrives once an admin exists is answered
\* 400 'Admin already exists'.
C19_AtMostOneAdmin ==
  /\ Len(admins) <= 1
  /\ \A s \in 1..MaxSlots :
       (inflight[s] # Idle /\ inflight[s].pc = "done" /\ inflight[s].existing > 0)
       => inflight[s].status = 400 /\ inflight[s].msg = "Admin already exists"

RECURSIVE ReachesByParents(_, _, _, _)
ReachesByParents(cats, from, target, fuel) ==
  IF fuel = 0 \/ from \notin DOMAIN cats \/ cats[from].parent = NoParent THEN FALSE
  ELSE cats[from].parent = target
       \/ ReachesByParents(cats, cats[from].parent, target, fuel - 1)

\* C17: after any sequence of category creations (POST /categories) and
\* updates (PUT /categories/:id, re-parenting included) no category is its own
\* ancestor: following parent references from a category never returns to it.
C17_NoCategoryIsOwnAncestor ==
  \A c \in DOMAIN categories :
    ~ReachesByParents(categories, c, c, Cardinality(DOMAIN categories))

\* C20: DELETE /categories/:id is answered 400 and keeps the category when at
\* least one product's subcategory references it, so a category referenced by
\* an existing product is never deleted.
C20_ReferencedCategoryKept ==
  /\ (resp.op = "deleteCategory" /\ resp.req.id \in DOMAIN resp.before
        /\ \E p \in DOMAIN products : products[p].subcategory = resp.req.id)
     => resp.status = 400 /\ resp.req.id \in DOMAIN categories
  /\ \A p \in DOMAIN products : products[p].subcategory \in DOMAIN categories

\* C21: PUT /orders/:id changes only the contact fields, status and notes
\* supplied in the body: the order's items, subtotal, discount code and
\* amount, delivery fee, totalAmount, order number and owner are unchanged, a
\* contact field, status or notes omitted from the body keeps its prior value,
\* and no other order changes.
C21_PutChangesOnlySupplied ==
  (resp.op = "put" /\ resp.req.id \in DOMAIN resp.before.orders)
  => LET old == resp.before.orders[resp.req.id]
         new == orders[resp.req.id]
         c == resp.req.customerInfo
     IN /\ DOMAIN orders = DOMAIN resp.before.orders
        /\ \A o \in DOMAIN orders \ {resp.req.id} : orders[o] = resp.before.orders[o]
        /\ \A f \in {"orderNumber", "items", "subtotal", "discountCode", "discountAmount",
                     "deliveryFee", "totalAmount", "user"} : new[f] = old[f]
        /\ c.name = "" => new.customerInfo.name = old.customerInfo.name
        /\ c.email = "" => new.customerInfo.email = old.customerInfo.email
        /\ c.phone = "" => new.customerInfo.phone = old.customerInfo.phone
        /\ ~c.address.present => new.customerInfo.address = old.customerInfo.address
        /\ resp.req.status = NoStatus => new.status = old.status
        /\ resp.req.notes = NoNotes => new.notes = old.notes

C21_Witness ==
  /\ resp.op = "put"
  /\ resp.status = 200
  /\ resp.req.id = 1
  /\ resp.req.customerInfo = ContactPhoneOnly
  /\ resp.req.status = NoStatus
  /\ resp.req.notes = NoNotes
  /\ resp.before.orders[1].customerInfo.name = "Ann"
  /\ resp.before.orders[1].customerInfo.phone = "0100"
  /\ resp.before.orders[1].notes = "call first"
  /\ resp.before.orders[1].status = "shipped"
  /\ orders[1].customerInfo.name = "Ann"
  /\ orders[1].customerInfo.phone = "0200"
  /\ orders[1].notes = "call first"
  /\ orders[1].status = "shipped"

ReservedInitially(p) == Reserved(InitOrders, DOMAIN InitOrders, p)

OpenIds(ords) == {o \in DOMAIN ords : ords[o].status # "cancelled"}

\* C22: stock debits and credits stay paired: after any sequence of order
\* placements, status updates between any of the six statuses and order
\* deletions, for every product the current stock plus the quantities of the
\* product over the lines of the existing non-cancelled orders equals the
\* stock the product had before any of the orders was placed.
C22_DebitsCreditsPaired ==
  \A p \in DOMAIN products :
    products[p].stock + Reserved(orders, OpenIds(orders), p)
      = InitProducts[p].stock + ReservedInitially(p)

RECURSIVE CountOf(_, _)
CountOf(seq, x) ==
  IF Len(seq) = 0 THEN 0 ELSE (IF seq[1] = x THEN 1 ELSE 0) + CountOf(Tail(seq), x)

\* C23: a discount code enters a user's consumed codes only together with the
\* creation of an order by that user carrying that code: after a POST /orders
\* that is rejected or fails every user's consumed codes are unchanged, and
\* after an accepted one only the caller's set grew, by the order's code, once.
C23_CodeConsumedOnlyWithOrder ==
  resp.op = "post"
  => IF resp.status # 201
     THEN users = resp.before.users
     ELSE \A u \in DOMAIN users, code \in Codes \ {NoCode} :
            CountOf(users[u].usedDiscountCodes, code)
              <= CountOf(resp.before.users[u].usedDiscountCodes, code)
                 + (IF u = resp.req.caller.id /\ code = resp.req.discountCode THEN 1 ELSE 0)

\* C24: an accepted order that carries a valid discount code has
\* discountAmount = subtotal * percentage / 100, where subtotal is the sum
\* over all lines of the order, for orders of one line and of several lines.
C24_DiscountOnFullSubtotal ==
  (resp.op = "post" /\ ValidPlacement(resp.before, resp.req)
     /\ resp.req.discountCode # NoCode
     /\ UsableCode(resp.before, resp.req.discountCode)
     /\ ~UsedBy(resp.before, resp.req.caller, resp.req.discountCode))
  => /\ resp.status = 201
     /\ resp.orderId \in DOMAIN orders
     /\ LET o == orders[resp.orderId]
        IN o.discountAmount * 100
             = LinesTotal(o.items) * resp.before.discounts[resp.req.discountCode].discount

\* C25: every order persisted by a placement has subtotal equal to the sum
\* over its lines of price * quantity, where each line's price is the price
\* the product had at that placement, and every line has quantity > 0.
C25_SubtotalIsSumOfLines ==
  /\ \A o \in DOMAIN orders :
       /\ orders[o].subtotal = LinesTotal(orders[o].items)
       /\ \A k \in 1..Len(orders[o].items) : orders[o].items[k].quantity > 0
  /\ (resp.op = "post" /\ ValidPlacement(resp.before, resp.req)
        /\ resp.req.discountCode = NoCode)
     => /\ resp.orderId \in DOMAIN orders
        /\ Len(orders[resp.orderId].items) = Len(resp.req.items)
        /\ \A k \in 1..Len(resp.req.items) :
             orders[resp.orderId].items[k].price
               = resp.before.products[resp.req.items[k].product].price

\* C26: after any sequence of category creations and updates every
\* category's ancestors list is its parent's current ancestors list followed
\* by the parent's id, and is empty for a category without parent, also for
\* the descendants of a category whose parent was changed.
C26_AncestorsFollowParent ==
  \A c \in DOMAIN categories :
    IF categories[c].parent = NoParent
    THEN categories[c].ancestors = <<>>
    ELSE categories[c].parent \in DOMAIN categories
         /\ categories[c].ancestors
              = Append(categories[categories[c].parent].ancestors, categories[c].parent)

C29_RestoredOncePerOrder ==
  (\A s \in 1..MaxSlots : inflight[s] = Idle)
    => \A p \in DOMAIN products :
         products[p].stock
           = InitProducts[p].stock + ReservedInitially(p)
               - Reserved(orders, OpenIds(orders), p)

RepeatedProducts(its) ==
  {p \in {its[k].product : k \in 1..Len(its)} :
     Cardinality({k \in 1..Len(its) : its[k].product = p}) > 1}

OverAsked(st, its) ==
  {p \in RepeatedProducts(its) \cap DOMAIN st.products :
     QtyOf(its, p) > st.products[p].stock}

====
